---------------------------- MODULE Spec2Model ----------------------------
(***************************************************************************)
(* Verification model of the slide pipeline of ai_ppt_framework:           *)
(*   - PresentationFactory._parse_analysis_result (presentation/factory.py)*)
(*   - LayoutEngine and BackgroundManager (visual/layout_system.py)        *)
(*   - BasePresentationEngine.create_full_presentation with the PPTX and   *)
(*     COM engines (presentation/base_engine.py, pptx_engine.py,           *)
(*     com_engine.py)                                                      *)
(*   - GeminiClient.generate_content (ai/gemini_client.py)                 *)
(* Python strings are TLA+ strings; the bullet character U+2022 is written *)
(* "@" because module text is ASCII.                                       *)
(***************************************************************************)
EXTENDS Integers, Sequences, FiniteSets, TLC

VARIABLES
  \* ---- PresentationFactory._parse_analysis_result
  analysis_result,          \* the raw text handed to the parser
  enable_image_generation,  \* config.enable_image_generation (and a visual engine is present)
  lines,                    \* analysis_result.strip().split("\n")
  lineNo,                   \* position of the for loop over lines (1-based)
  current_slide,            \* the dict being filled, or None
  slides_data,              \* the list of dicts
  convNo,                   \* position of the conversion loop over slides_data
  result,                   \* the list of SlideData returned
  ppc,                      \* control point of the parser
  \* ---- LayoutEngine (the module-level instance layout_engine)
  layouts,                  \* self.layouts: the catalog of templates
  le_call,                  \* the last call made on the engine, with its return value
  \* ---- BackgroundManager (the module-level instance background_manager)
  bm_call,                  \* the last call of prepare_background_image, with its outcome
  \* ---- BasePresentationEngine.create_full_presentation on one engine
  engine,                   \* the class of self: "pptx" or "com"
  records,                  \* the slides_data argument
  epc,                      \* control point of create_full_presentation
  recNo,                    \* position of the for loop over slides_data (1-based)
  presentation,             \* self.presentation with its slides, or None
  slides_created,           \* self.slides_created
  saved_file,               \* the document written to output_path, or None
  failed_record,            \* history: the record whose add call raised, 0 for none
  outcome,                  \* what create_full_presentation returned or raised
  \* ---- two engines inserting backgrounds through the shared background_manager
  docs,                     \* per document: its source image and the progress of
                            \* _insert_proper_background_image
  temp_files,               \* the files of background_manager.temp_dir, by name
  \* ---- GeminiClient
  client,                   \* the fields of self: whether self.client is set,
                            \* max_retries, request_count, error_count
  gc_call                   \* the running generate_content call: its control
                            \* point, attempt, the API results so far, its outcome

parserVars == <<analysis_result, enable_image_generation, lines, lineNo,
                current_slide, slides_data, convNo, result, ppc>>

layoutVars == <<layouts, le_call>>

coverVars == <<bm_call>>

engineVars == <<engine, records, epc, recNo, presentation, slides_created,
                saved_file, failed_record, outcome>>

assemblyVars == <<docs, temp_files>>

clientVars == <<client, gc_call>>

vars == <<parserVars, layoutVars, coverVars, engineVars, assemblyVars, clientVars>>

(***************************************************************************)
(* Bounds                                                                  *)
(***************************************************************************)
MaxLines == 3
MaxTextLen == 310
MaxDim == 9
MaxSlides == 2
MaxBudget == 22
MaxBullets == 4
MaxPoints == 4
MaxRecordLines == 4
MaxRetries == 3
MaxRequests == 2

(***************************************************************************)
(* Python str primitives                                                   *)
(***************************************************************************)
None == [py |-> "None"]

\* a file path value (kept apart from None)
PathOf(name) == [path |-> name]

Whitespace == {" ", "\t", "\n", "\r"}

StartsWith(s, p) == Len(s) >= Len(p) /\ SubSeq(s, 1, Len(p)) = p

\* positions at which sub occurs in s
Occurrences(s, sub) ==
  {i \in 1..(Len(s) - Len(sub) + 1) : SubSeq(s, i, i + Len(sub) - 1) = sub}

SetMin(S) == CHOOSE i \in S : \A j \in S : i <= j

SetMax(S) == CHOOSE i \in S : \A j \in S : i >= j

\* "sub in s"
Contains(s, sub) == Occurrences(s, sub) # {}

\* str.strip(): drop leading and trailing whitespace
Strip(s) ==
  LET keep == {i \in 1..Len(s) : SubSeq(s, i, i) \notin Whitespace}
  IN  IF keep = {} THEN "" ELSE SubSeq(s, SetMin(keep), SetMax(keep))

\* str.replace(old, new): non-overlapping occurrences, left to right
RECURSIVE Replace(_, _, _)
Replace(s, old, new) ==
  IF Occurrences(s, old) = {} THEN s
  ELSE LET i == SetMin(Occurrences(s, old))
       IN  SubSeq(s, 1, i - 1) \o new \o Replace(SubSeq(s, i + Len(old), Len(s)), old, new)

\* str.split(sep) for a one-character separator
RECURSIVE Split(_, _)
Split(s, sep) ==
  IF Occurrences(s, sep) = {} THEN <<s>>
  ELSE LET i == SetMin(Occurrences(s, sep))
       IN  <<SubSeq(s, 1, i - 1)>> \o Split(SubSeq(s, i + 1, Len(s)), sep)

RECURSIVE Join(_, _)
Join(seq, sep) ==
  IF Len(seq) = 0 THEN ""
  ELSE IF Len(seq) = 1 THEN seq[1]
  ELSE seq[1] \o sep \o Join(Tail(seq), sep)

\* truth value of "if d:" for a dict-or-None
PyTruthy_NonEmptyContent(d) == d # None /\ (d.title # "" \/ d.points # <<>>)

PyTruthy(d) == d # None /\ DOMAIN d # {}

(***************************************************************************)
(* Enumerations                                                            *)
(***************************************************************************)
SlideType == {"title_slide", "architecture_slide", "features_slide",
              "metrics_slide", "roadmap_slide", "content_slide"}

DesignTheme == {"corporate_modern", "creative_gradient", "minimalist_luxury",
                "tech_innovation", "adobe_inspired", "behance_style"}

\* Enum lookup by value: DesignTheme(theme_str) raises ValueError for an unknown value
DesignThemeCtor(s) ==
  IF s \in DesignTheme THEN [raised |-> FALSE, value |-> s]
  ELSE [raised |-> TRUE, value |-> "ValueError"]

ThemeOf_NoExcept(theme_str) == DesignThemeCtor(theme_str)

\* try: theme = DesignTheme(theme_str)  except ValueError: theme = CORPORATE_MODERN
ThemeOf(theme_str) ==
  LET r == DesignThemeCtor(theme_str)
  IN  IF r.raised THEN [raised |-> FALSE, value |-> "corporate_modern"] ELSE r

(***************************************************************************)
(* visual/layout_system.py: LayoutEngine                                   *)
(* Lengths are in units of 1/10000 inch so that every coordinate of the    *)
(* catalog is an integer (SLIDE_WIDTH = 13.33 in = 133300).                *)
(***************************************************************************)
SLIDE_WIDTH == 133300
SLIDE_HEIGHT == 75000
MARGIN_TOP == 5000
MARGIN_BOTTOM == 5000
MARGIN_LEFT == 5000
MARGIN_RIGHT == 5000

\* the members of the LayoutType enum, by value
LayoutType == {"title_slide", "title_content", "two_column", "image_text",
               "content_only", "diagram_focus", "full_image"}

\* max_text_length = None
NoMaxLength == -1

LayoutRegion_ToCanvasEdge(name, x, y, width, height, z_index, alignment, max_text_length, font_size_range) ==
  [name |-> name, x |-> x, y |-> y, width |-> SLIDE_WIDTH - MARGIN_RIGHT - x,
   height |-> height, z_index |-> z_index, alignment |-> alignment,
   max_text_length |-> max_text_length, font_size_range |-> font_size_range]

\* LayoutRegion(name, Position(x, y, width, height, z_index), alignment,
\*              max_text_length = None, font_size_range = (12, 24))
LayoutRegion(name, x, y, width, height, z_index, alignment, max_text_length, font_size_range) ==
  [name |-> name, x |-> x, y |-> y, width |-> width, height |-> height,
   z_index |-> z_index, alignment |-> alignment,
   max_text_length |-> max_text_length, font_size_range |-> font_size_range]

DefaultFontSizeRange == <<12, 24>>

ContentWidth_PlusRightMargin == SLIDE_WIDTH - MARGIN_LEFT + MARGIN_RIGHT

ContentWidth == SLIDE_WIDTH - MARGIN_LEFT - MARGIN_RIGHT

BodyHeight == SLIDE_HEIGHT - MARGIN_TOP - MARGIN_BOTTOM - 12000

InitializeLayouts ==
  [lt \in {"title_slide", "title_content", "two_column", "image_text", "diagram_focus"} |->
    CASE lt = "title_slide" ->
           << LayoutRegion("title", MARGIN_LEFT, 20000, ContentWidth, 15000, 10,
                           "center", NoMaxLength, <<36, 48>>),
              LayoutRegion("subtitle", MARGIN_LEFT, 40000, ContentWidth, 10000, 10,
                           "center", NoMaxLength, <<18, 24>>) >>
      [] lt = "title_content" ->
           << LayoutRegion("title", MARGIN_LEFT, MARGIN_TOP, ContentWidth, 10000, 10,
                           "left", NoMaxLength, <<24, 32>>),
              LayoutRegion("content", MARGIN_LEFT, MARGIN_TOP + 12000, ContentWidth,
                           BodyHeight, 5, "left", 500, <<14, 18>>) >>
      [] lt = "two_column" ->
           << LayoutRegion("title", MARGIN_LEFT, MARGIN_TOP, ContentWidth, 10000, 10,
                           "left", NoMaxLength, <<24, 32>>),
              LayoutRegion("left_content", MARGIN_LEFT, MARGIN_TOP + 12000,
                           (ContentWidth - 2000) \div 2, BodyHeight, 5,
                           "left", 250, <<12, 16>>),
              LayoutRegion("right_content", MARGIN_LEFT + ContentWidth \div 2 + 1000,
                           MARGIN_TOP + 12000, (ContentWidth - 2000) \div 2, BodyHeight, 5,
                           "left", 250, <<12, 16>>) >>
      [] lt = "image_text" ->
           << LayoutRegion("title", MARGIN_LEFT, MARGIN_TOP, ContentWidth, 10000, 10,
                           "left", NoMaxLength, <<24, 32>>),
              LayoutRegion("image", MARGIN_LEFT, MARGIN_TOP + 12000,
                           (ContentWidth * 60) \div 100, BodyHeight, 3,
                           "center", NoMaxLength, DefaultFontSizeRange),
              LayoutRegion("text_content", MARGIN_LEFT + (ContentWidth * 65) \div 100,
                           MARGIN_TOP + 12000, (ContentWidth * 35) \div 100 - 1000,
                           BodyHeight, 5, "left", 300, <<12, 16>>) >>
      [] lt = "diagram_focus" ->
           << LayoutRegion("title", MARGIN_LEFT, MARGIN_TOP, ContentWidth, 8000, 10,
                           "center", NoMaxLength, <<20, 28>>),
              LayoutRegion("diagram", MARGIN_LEFT + 10000, MARGIN_TOP + 10000,
                           ContentWidth - 20000,
                           SLIDE_HEIGHT - MARGIN_TOP - MARGIN_BOTTOM - 20000, 3,
                           "center", NoMaxLength, DefaultFontSizeRange),
              LayoutRegion("caption", MARGIN_LEFT, SLIDE_HEIGHT - MARGIN_BOTTOM - 6000,
                           ContentWidth, 5000, 5, "center", 100, <<10, 14>>) >> ]

\* self.layouts.get(layout_type, self.layouts[LayoutType.TITLE_CONTENT])
get_layout(catalog, layout_type) ==
  IF layout_type \in DOMAIN catalog THEN catalog[layout_type] ELSE catalog["title_content"]

calculate_optimal_layout_ImageFirst(content_type, has_image, has_diagram) ==
  IF content_type = "title_slide" THEN "title_slide"
  ELSE IF has_image THEN "image_text"
  ELSE IF has_diagram THEN "diagram_focus"
  ELSE IF content_type \in {"features", "comparison"} THEN "two_column"
  ELSE "title_content"

calculate_optimal_layout(content_type, has_image, has_diagram) ==
  IF content_type = "title_slide" THEN "title_slide"
  ELSE IF has_diagram THEN "diagram_focus"
  ELSE IF has_image THEN "image_text"
  ELSE IF content_type \in {"features", "comparison"} THEN "two_column"
  ELSE "title_content"

\* int(min_size + (max_size - min_size) * tenths / 10): the float product and
\* sum are truncated toward zero; for 0 < min_size <= max_size < 100 the IEEE
\* double result truncates to the same integer as the exact quotient
ScaledSize(min_size, max_size, tenths) ==
  (10 * min_size + (max_size - min_size) * tenths) \div 10

calculate_font_size_AboveMax(text_len, region) ==
  LET min_size == region.font_size_range[1]
      max_size == region.font_size_range[2]
  IN  IF text_len < 50 THEN max_size
      ELSE IF text_len < 150 THEN ScaledSize(max_size, 2 * max_size - min_size, 7)
      ELSE IF text_len < 300 THEN ScaledSize(min_size, max_size, 4)
      ELSE min_size

\* calculate_font_size with the shares of the two middle buckets exchanged
calculate_font_size_SharesSwapped(text_len, region) ==
  LET min_size == region.font_size_range[1]
      max_size == region.font_size_range[2]
  IN  IF text_len < 50 THEN max_size
      ELSE IF text_len < 150 THEN ScaledSize(min_size, max_size, 4)
      ELSE IF text_len < 300 THEN ScaledSize(min_size, max_size, 7)
      ELSE min_size

\* calculate_font_size(text, region); text enters only through len(text)
calculate_font_size(text_len, region) ==
  LET min_size == region.font_size_range[1]
      max_size == region.font_size_range[2]
  IN  IF text_len < 50 THEN max_size
      ELSE IF text_len < 150 THEN ScaledSize(min_size, max_size, 7)
      ELSE IF text_len < 300 THEN ScaledSize(min_size, max_size, 4)
      ELSE min_size

\* text[:stop], the Python slice from the start
SliceTo(text, stop) ==
  IF stop >= 0 THEN SubSeq(text, 1, IF stop < Len(text) THEN stop ELSE Len(text))
  ELSE SubSeq(text, 1, IF Len(text) + stop > 0 THEN Len(text) + stop ELSE 0)

\* text.rfind(ch): the 0-based index of the last occurrence, -1 for none
RFind(text, ch) ==
  IF Occurrences(text, ch) = {} THEN -1 ELSE SetMax(Occurrences(text, ch)) - 1

\* index > max_text_length * (tenths / 10); for the budgets below 90 and the
\* catalog's budgets 100, 250, 300 and 500 the double product compares with an
\* integer as the exact product does
AboveShare(index, max_text_length, tenths) == 10 * index > tenths * max_text_length

\* validate_text_length with the word boundary tried before the sentence
\* boundary
validate_text_length_WordFirst(text, region) ==
  IF region.max_text_length = NoMaxLength THEN <<text, FALSE>>
  ELSE IF Len(text) <= region.max_text_length THEN <<text, FALSE>>
  ELSE
    LET truncated == SliceTo(text, region.max_text_length - 3)
        last_period == RFind(truncated, ".")
        last_space == RFind(truncated, " ")
    IN  IF AboveShare(last_space, region.max_text_length, 8) THEN
          <<SliceTo(truncated, last_space) \o "...", TRUE>>
        ELSE IF AboveShare(last_period, region.max_text_length, 7) THEN
          <<SliceTo(truncated, last_period + 1), TRUE>>
        ELSE <<truncated \o "...", TRUE>>

\* validate_text_length cutting at the budget instead of three short of it
validate_text_length_CutAtBudget(text, region) ==
  IF region.max_text_length = NoMaxLength THEN <<text, FALSE>>
  ELSE IF Len(text) <= region.max_text_length THEN <<text, FALSE>>
  ELSE
    LET truncated == SliceTo(text, region.max_text_length)
        last_period == RFind(truncated, ".")
        last_space == RFind(truncated, " ")
    IN  IF AboveShare(last_period, region.max_text_length, 7) THEN
          <<SliceTo(truncated, last_period + 1), TRUE>>
        ELSE IF AboveShare(last_space, region.max_text_length, 8) THEN
          <<SliceTo(truncated, last_space) \o "...", TRUE>>
        ELSE <<truncated \o "...", TRUE>>

\* validate_text_length(text, region): the pair (processed_text, was_truncated)
validate_text_length(text, region) ==
  IF region.max_text_length = NoMaxLength THEN <<text, FALSE>>
  ELSE IF Len(text) <= region.max_text_length THEN <<text, FALSE>>
  ELSE
    LET truncated == SliceTo(text, region.max_text_length - 3)
        last_period == RFind(truncated, ".")
        last_space == RFind(truncated, " ")
    IN  IF AboveShare(last_period, region.max_text_length, 7) THEN
          <<SliceTo(truncated, last_period + 1), TRUE>>
        ELSE IF AboveShare(last_space, region.max_text_length, 8) THEN
          <<SliceTo(truncated, last_space) \o "...", TRUE>>
        ELSE <<truncated \o "...", TRUE>>

UpperCase == "ABCDEFGHIJKLMNOPQRSTUVWXYZ"
LowerCase == "abcdefghijklmnopqrstuvwxyz"

\* str.lower() of one ASCII character
LowerTable ==
  [c \in {SubSeq(UpperCase, i, i) : i \in 1..26} |->
     LET i == SetMin(Occurrences(UpperCase, c)) IN SubSeq(LowerCase, i, i)]

LowerChar(c) == IF c \in DOMAIN LowerTable THEN LowerTable[c] ELSE c

\* "keyword in text.lower()": text.lower() maps every character by LowerChar
InLower(keyword, text) ==
  \E i \in 1..(Len(text) - Len(keyword) + 1) :
    \A k \in 1..Len(keyword) :
      LowerChar(SubSeq(text, i + k - 1, i + k - 1)) = SubSeq(keyword, k, k)

important_keywords == <<"key", "important", "critical", "main", "primary">>

\* total_score of one bullet in optimize_bullet_points
TotalScore(point) ==
  LET length_score == IF 100 - Len(point) > 0 THEN 100 - Len(point) ELSE 0
      keyword_score ==
        10 * Cardinality({k \in 1..Len(important_keywords) :
                            InLower(important_keywords[k], point)})
  IN  length_score + keyword_score

\* the scores paired with the points in scored_points
ScoresOf(points) == [i \in 1..Len(points) |-> TotalScore(points[i])]

\* the positions of scored_points in the order of
\* scored_points.sort(key=score, reverse=True); stable says that equal scores
\* keep their order, as list.sort does
SortedByScore(score, stable) ==
  LET n == Len(score)
      rank(i) == 1 + Cardinality({j \in 1..n :
                        \/ score[j] > score[i]
                        \/ score[j] = score[i] /\ (IF stable THEN j < i ELSE j > i)})
  IN  [r \in 1..n |-> CHOOSE i \in 1..n : rank(i) = r]

optimize_bullet_points_LaterFirst(points, max_points) ==
  IF Len(points) <= max_points THEN
    [ret |-> points, picked |-> [i \in 1..Len(points) |-> i], points |-> points]
  ELSE
    LET order == SortedByScore(ScoresOf(points), FALSE)
        picked == SubSeq(order, 1, max_points)
    IN  [ret |-> [k \in 1..Len(picked) |-> points[picked[k]]],
         picked |-> picked, points |-> points]

optimize_bullet_points_SortsInPlace(points, max_points) ==
  IF Len(points) <= max_points THEN
    [ret |-> points, picked |-> [i \in 1..Len(points) |-> i], points |-> points]
  ELSE
    LET order == SortedByScore(ScoresOf(points), TRUE)
        picked == SubSeq(order, 1, max_points)
    IN  [ret |-> [k \in 1..Len(picked) |-> points[picked[k]]],
         picked |-> picked,
         points |-> [k \in 1..Len(order) |-> points[order[k]]]]

\* optimize_bullet_points(points, max_points) for max_points >= 0: ret is the
\* returned list, picked the positions in points its items come from
\* (history), points the argument list as the call leaves it. The sort is
\* stable and works on the new list scored_points.
optimize_bullet_points(points, max_points) ==
  IF Len(points) <= max_points THEN
    [ret |-> points, picked |-> [i \in 1..Len(points) |-> i], points |-> points]
  ELSE
    LET order == SortedByScore(ScoresOf(points), TRUE)
        picked == SubSeq(order, 1, max_points)
    IN  [ret |-> [k \in 1..Len(picked) |-> points[picked[k]]],
         picked |-> picked, points |-> points]

(***************************************************************************)
(* Parser input: texts over a corpus of lines                              *)
(***************************************************************************)
LineCorpus ==
  { "SLIDE 1 - A:",
    "**SLIDE 2**",
    "SLIDE 4",
    "TITLE: Demo",
    "**TITLE:** Two",
    "THEME_SUGGESTION: neon",
    "SLIDE_TYPE: title_slide",
    "SLIDE_TYPE: metrics_slide",
    "SLIDE_TYPE: Metrics",
    "- p1",
    " **- p2** ",
    "" }

RECURSIVE SeqsUpTo(_, _)
SeqsUpTo(S, n) ==
  IF n = 0 THEN {<<>>}
  ELSE LET shorter == SeqsUpTo(S, n - 1)
       IN  shorter \cup {Append(q, x) : q \in {p \in shorter : Len(p) = n - 1}, x \in S}

Texts == {Join(ls, "\n") : ls \in SeqsUpTo(LineCorpus, MaxLines)} \cup {"  ", " \n\t"}

(***************************************************************************)
(* _parse_analysis_result: line classification                             *)
(***************************************************************************)
CleanLine(line) == Replace(Replace(line, "**", ""), "*", "")

IsSlideMarker(line) ==
  \/ StartsWith(CleanLine(line), "SLIDE ") /\ Contains(CleanLine(line), " - ")
  \/ StartsWith(line, "**SLIDE ")

IsTitleLine(line) ==
  StartsWith(CleanLine(line), "TITLE:") \/ StartsWith(line, "**TITLE:")

IsThemeLine(line) ==
  StartsWith(CleanLine(line), "THEME_SUGGESTION:") \/ StartsWith(line, "**THEME_SUGGESTION:")

IsSlideTypeLine(line) ==
  StartsWith(CleanLine(line), "SLIDE_TYPE:") \/ StartsWith(line, "**SLIDE_TYPE:")

IsBulletLine(line) == StartsWith(line, "- ") \/ StartsWith(line, "**- ")

BulletPoint(line) == Strip(Replace(Replace(line, "**", ""), "- ", ""))

\* the dict created at a SLIDE marker; marker_line is a history field (the
\* position of the marker line in lines), not a key of the Python dict
NewSlideDict(n) ==
  [title |-> "", points |-> <<>>, theme |-> "corporate_modern",
   slide_type |-> "content_slide", marker_line |-> n]

\* slides_data after "if current_slide: slides_data.append(current_slide)"
AppendIfOpen(sd, cur) == IF PyTruthy(cur) THEN Append(sd, cur) ELSE sd

(***************************************************************************)
(* _parse_analysis_result: steps                                           *)
(***************************************************************************)
nonParserVars == <<layoutVars, coverVars, engineVars, assemblyVars, clientVars>>

\* no document is being assembled and temp_dir is empty
AssemblyIdle ==
  /\ docs = <<>>
  /\ temp_files = <<>>

\* no create_full_presentation is running
EngineIdle ==
  /\ engine = "pptx"
  /\ records = <<>>
  /\ epc = "idle"
  /\ recNo = 0
  /\ presentation = None
  /\ slides_created = 0
  /\ saved_file = None
  /\ failed_record = 0
  /\ outcome = None

\* GeminiClient.__init__ with the default configuration and no API key; no
\* generate_content is running
ClientIdle ==
  /\ client = [configured |-> FALSE, max_retries |-> 3, request_count |-> 0,
               error_count |-> 0]
  /\ gc_call = [op |-> "none"]

\* the other components stay as constructed while the parser runs
ParserAlone ==
  /\ layouts = InitializeLayouts
  /\ le_call = [op |-> "none"]
  /\ bm_call = [op |-> "none"]
  /\ ClientIdle
  /\ AssemblyIdle
  /\ EngineIdle

ParserInit ==
  /\ ParserAlone
  /\ analysis_result \in Texts
  /\ enable_image_generation \in BOOLEAN
  /\ lines = <<>>
  /\ lineNo = 0
  /\ current_slide = None
  /\ slides_data = <<>>
  /\ convNo = 0
  /\ result = <<>>
  /\ ppc = "start"

\* lines = analysis_result.strip().split("\n")
ParseSplit ==
  /\ ppc = "start"
  /\ lines' = Split(Strip(analysis_result), "\n")
  /\ lineNo' = 1
  /\ ppc' = "scan"
  /\ UNCHANGED <<analysis_result, enable_image_generation, current_slide,
                 slides_data, convNo, result>>
  /\ UNCHANGED nonParserVars

ParseLine_FirstTitleWins ==
  /\ ppc = "scan"
  /\ lineNo <= Len(lines)
  /\ LET line == Strip(lines[lineNo])
         clean_line == CleanLine(line)
     IN
       IF IsSlideMarker(line) THEN
         /\ slides_data' = AppendIfOpen(slides_data, current_slide)
         /\ current_slide' = NewSlideDict(lineNo)
       ELSE IF IsTitleLine(line) /\ current_slide # None THEN
         /\ current_slide' =
              IF current_slide.title = ""
              THEN [current_slide EXCEPT !.title = Strip(Replace(clean_line, "TITLE:", ""))]
              ELSE current_slide
         /\ UNCHANGED slides_data
       ELSE IF IsThemeLine(line) /\ current_slide # None THEN
         /\ current_slide' =
              [current_slide EXCEPT !.theme = Strip(Replace(clean_line, "THEME_SUGGESTION:", ""))]
         /\ UNCHANGED slides_data
       ELSE IF IsSlideTypeLine(line) /\ current_slide # None THEN
         /\ current_slide' =
              [current_slide EXCEPT !.slide_type = Strip(Replace(clean_line, "SLIDE_TYPE:", ""))]
         /\ UNCHANGED slides_data
       ELSE IF IsBulletLine(line) /\ current_slide # None THEN
         /\ current_slide' =
              IF BulletPoint(line) # ""
              THEN [current_slide EXCEPT !.points = Append(@, BulletPoint(line))]
              ELSE current_slide
         /\ UNCHANGED slides_data
       ELSE
         UNCHANGED <<current_slide, slides_data>>
  /\ lineNo' = lineNo + 1
  /\ UNCHANGED <<analysis_result, enable_image_generation, lines, convNo, result, ppc>>
  /\ UNCHANGED nonParserVars

ParseLine_TitleOpensRecord ==
  /\ ppc = "scan"
  /\ lineNo <= Len(lines)
  /\ LET line == Strip(lines[lineNo])
         clean_line == CleanLine(line)
     IN
       IF IsSlideMarker(line) THEN
         /\ slides_data' = AppendIfOpen(slides_data, current_slide)
         /\ current_slide' = NewSlideDict(lineNo)
       ELSE IF IsTitleLine(line) THEN
         /\ current_slide' =
              [(IF current_slide # None THEN current_slide ELSE NewSlideDict(lineNo))
                 EXCEPT !.title = Strip(Replace(clean_line, "TITLE:", ""))]
         /\ UNCHANGED slides_data
       ELSE IF IsThemeLine(line) /\ current_slide # None THEN
         /\ current_slide' =
              [current_slide EXCEPT !.theme = Strip(Replace(clean_line, "THEME_SUGGESTION:", ""))]
         /\ UNCHANGED slides_data
       ELSE IF IsSlideTypeLine(line) /\ current_slide # None THEN
         /\ current_slide' =
              [current_slide EXCEPT !.slide_type = Strip(Replace(clean_line, "SLIDE_TYPE:", ""))]
         /\ UNCHANGED slides_data
       ELSE IF IsBulletLine(line) /\ current_slide # None THEN
         /\ current_slide' =
              IF BulletPoint(line) # ""
              THEN [current_slide EXCEPT !.points = Append(@, BulletPoint(line))]
              ELSE current_slide
         /\ UNCHANGED slides_data
       ELSE
         UNCHANGED <<current_slide, slides_data>>
  /\ lineNo' = lineNo + 1
  /\ UNCHANGED <<analysis_result, enable_image_generation, lines, convNo, result, ppc>>
  /\ UNCHANGED nonParserVars

\* one iteration of "for line in lines"
ParseLine ==
  /\ ppc = "scan"
  /\ lineNo <= Len(lines)
  /\ LET line == Strip(lines[lineNo])
         clean_line == CleanLine(line)
     IN
       IF IsSlideMarker(line) THEN
         /\ slides_data' = AppendIfOpen(slides_data, current_slide)
         /\ current_slide' = NewSlideDict(lineNo)
       ELSE IF IsTitleLine(line) /\ current_slide # None THEN
         /\ current_slide' =
              [current_slide EXCEPT !.title = Strip(Replace(clean_line, "TITLE:", ""))]
         /\ UNCHANGED slides_data
       ELSE IF IsThemeLine(line) /\ current_slide # None THEN
         /\ current_slide' =
              [current_slide EXCEPT !.theme = Strip(Replace(clean_line, "THEME_SUGGESTION:", ""))]
         /\ UNCHANGED slides_data
       ELSE IF IsSlideTypeLine(line) /\ current_slide # None THEN
         /\ current_slide' =
              [current_slide EXCEPT !.slide_type = Strip(Replace(clean_line, "SLIDE_TYPE:", ""))]
         /\ UNCHANGED slides_data
       ELSE IF IsBulletLine(line) /\ current_slide # None THEN
         /\ current_slide' =
              IF BulletPoint(line) # ""
              THEN [current_slide EXCEPT !.points = Append(@, BulletPoint(line))]
              ELSE current_slide
         /\ UNCHANGED slides_data
       ELSE
         UNCHANGED <<current_slide, slides_data>>
  /\ lineNo' = lineNo + 1
  /\ UNCHANGED <<analysis_result, enable_image_generation, lines, convNo, result, ppc>>
  /\ UNCHANGED nonParserVars

\* after the loop: "if current_slide: slides_data.append(current_slide)"
ParseFlush ==
  /\ ppc = "scan"
  /\ lineNo > Len(lines)
  /\ slides_data' = AppendIfOpen(slides_data, current_slide)
  /\ convNo' = 1
  /\ ppc' = "convert"
  /\ UNCHANGED <<analysis_result, enable_image_generation, lines, lineNo,
                 current_slide, result>>
  /\ UNCHANGED nonParserVars

DiagramTypes == {"architecture_slide", "roadmap_slide", "metrics_slide"}

\* one iteration of "for slide_dict in slides_data": build the SlideData
ConvertSlide ==
  /\ ppc = "convert"
  /\ convNo <= Len(slides_data)
  /\ LET slide_dict == slides_data[convNo]
         theme == ThemeOf(slide_dict.theme)
     IN
       IF theme.raised THEN
         /\ ppc' = "raised"
         /\ UNCHANGED <<result, convNo>>
       ELSE
         \* the visual engine is an external producer: a path or None
         /\ \E diagram \in (IF enable_image_generation /\ slide_dict.slide_type \in DiagramTypes
                            THEN {None, PathOf("diagram.png")} ELSE {None}),
               icons \in (IF enable_image_generation /\ slide_dict.slide_type = "features_slide"
                          THEN {<<>>, <<PathOf("icon.png")>>} ELSE {<<>>}) :
              result' = Append(result,
                 [title |-> slide_dict.title,
                  points |-> slide_dict.points,
                  theme |-> theme.value,
                  slide_type |-> slide_dict.slide_type,
                  background_image |-> None,
                  diagram_image |-> diagram,
                  feature_icons |-> icons,
                  marker_line |-> slide_dict.marker_line])
         /\ convNo' = convNo + 1
         /\ UNCHANGED ppc
  /\ UNCHANGED <<analysis_result, enable_image_generation, lines, lineNo,
                 current_slide, slides_data>>
  /\ UNCHANGED nonParserVars

\* return result
ParseReturn ==
  /\ ppc = "convert"
  /\ convNo > Len(slides_data)
  /\ ppc' = "done"
  /\ UNCHANGED <<analysis_result, enable_image_generation, lines, lineNo,
                 current_slide, slides_data, convNo, result>>
  /\ UNCHANGED nonParserVars

ParserNext == ParseSplit \/ ParseLine \/ ParseFlush \/ ConvertSlide \/ ParseReturn

SpecParser == ParserInit /\ [][ParserNext]_vars

(***************************************************************************)
(* Claims about the parser                                                 *)
(***************************************************************************)
\* positions of the lines the parser classifies as SLIDE markers, ascending
RECURSIVE MarkerPositionsFrom(_, _)
MarkerPositionsFrom(ls, n) ==
  IF n > Len(ls) THEN <<>>
  ELSE IF IsSlideMarker(Strip(ls[n]))
       THEN <<n>> \o MarkerPositionsFrom(ls, n + 1)
       ELSE MarkerPositionsFrom(ls, n + 1)

MarkerPositions == MarkerPositionsFrom(lines, 1)

\* C1: with image generation disabled, parsing any text never raises, every
\* loop position stays within its list until the return is reached, and the
\* parse returns the empty list for an empty or whitespace-only text.
C1_ParsingNeverFails ==
  ~enable_image_generation =>
    /\ ppc # "raised"
    /\ ppc \in {"start", "scan", "convert", "done"}
    /\ (ppc = "scan" => lineNo \in 1..(Len(lines) + 1))
    /\ (ppc = "convert" => convNo \in 1..(Len(slides_data) + 1))
    /\ ((ppc = "done" /\ Strip(analysis_result) = "") => result = <<>>)

\* a finished parse, image generation disabled, of a text that has a line
\* before its first marker and a record whose theme string is no DesignTheme
C1_Witness ==
  /\ ppc = "done"
  /\ ~enable_image_generation
  /\ Len(lines) >= 2
  /\ ~IsSlideMarker(Strip(lines[1]))
  /\ \E k \in 1..Len(slides_data) :
        /\ slides_data[k].theme \notin DesignTheme
        /\ result[k].theme = "corporate_modern"

\* C2: the returned list has exactly one record per marker line, in the
\* order of the marker lines, including markers followed by no TITLE and no
\* bullets and the record still open at end of input.
C2_OneRecordPerMarker ==
  ppc = "done" =>
    /\ Len(result) = Len(MarkerPositions)
    /\ \A k \in 1..Len(result) : result[k].marker_line = MarkerPositions[k]

\* a finished parse with two adjacent marker lines (the first record has no
\* title and no bullets) whose last record was open at end of input
C2_Witness ==
  /\ ppc = "done"
  /\ Len(result) >= 2
  /\ result[1].title = "" /\ result[1].points = <<>>
  /\ result[2].marker_line = result[1].marker_line + 1
  /\ result[Len(result)].marker_line = Len(lines)

\* C3: every returned record has a kind among the enumerated slide kinds.
C3_KindEnumerated ==
  \A k \in 1..Len(result) : result[k].slide_type \in SlideType

(***************************************************************************)
(* _parse_analysis_result on texts of longer records                       *)
(***************************************************************************)
RecordLineCorpus ==
  { "SLIDE 1 - A:",
    "TITLE: Demo",
    "**TITLE:** Two",
    "THEME_SUGGESTION: tech_innovation",
    "SLIDE_TYPE: metrics_slide",
    "- p1" }

RecordTexts == {Join(ls, "\n") : ls \in SeqsUpTo(RecordLineCorpus, MaxRecordLines)}

ParserRecordsInit ==
  /\ ParserAlone
  /\ analysis_result \in RecordTexts
  /\ enable_image_generation \in BOOLEAN
  /\ lines = <<>>
  /\ lineNo = 0
  /\ current_slide = None
  /\ slides_data = <<>>
  /\ convNo = 0
  /\ result = <<>>
  /\ ppc = "start"

SpecParserRecords == ParserRecordsInit /\ [][ParserNext]_vars

\* C19: when TITLE: lines occur between a record's marker and the next marker
\* (or the end of input), the record's title is the text of the last of them.
C19_LastTitleWins ==
  ppc = "done" =>
    \A k \in 1..Len(result) :
      LET from == result[k].marker_line + 1
          to == IF k < Len(result) THEN result[k + 1].marker_line - 1 ELSE Len(lines)
          titles == {n \in from..to : IsTitleLine(Strip(lines[n]))}
      IN  titles # {} =>
            result[k].title =
              Strip(Replace(CleanLine(Strip(lines[SetMax(titles)])), "TITLE:", ""))

\* a finished parse of a record with two TITLE: lines of different text and a
\* bullet between them
C19_Witness ==
  /\ ppc = "done"
  /\ Len(lines) = 4
  /\ Len(result) = 1
  /\ IsTitleLine(lines[2]) /\ IsBulletLine(lines[3]) /\ IsTitleLine(lines[4])
  /\ Strip(Replace(CleanLine(lines[2]), "TITLE:", "")) # result[1].title
  /\ result[1].title = Strip(Replace(CleanLine(lines[4]), "TITLE:", ""))
  /\ result[1].points # <<>>

\* C20: lines before the first marker create no record and reach no later
\* record: the result has one record per marker, and every field of a record
\* is what the lines from its own marker to the next marker yield, as in a
\* parse of the text without the leading lines.
C20_LeadingLinesIgnored ==
  ppc = "done" =>
    /\ Len(result) = Len(MarkerPositions)
    /\ \A k \in 1..Len(result) :
         LET from == MarkerPositions[k] + 1
             to == IF k < Len(result) THEN MarkerPositions[k + 1] - 1 ELSE Len(lines)
             line(n) == Strip(lines[n])
             LastOf(S, prefix, default) ==
               IF S = {} THEN default
               ELSE Strip(Replace(CleanLine(line(SetMax(S))), prefix, ""))
             titles == {n \in from..to : IsTitleLine(line(n))}
             themes == {n \in from..to : IsThemeLine(line(n))}
             types == {n \in from..to : IsSlideTypeLine(line(n))}
             IsPoint(n) == IsBulletLine(line(n)) /\ BulletPoint(line(n)) # ""
             bullets == SelectSeq([i \in 1..(to - from + 1) |-> from + i - 1], IsPoint)
         IN  /\ result[k].title = LastOf(titles, "TITLE:", "")
             /\ result[k].theme =
                  ThemeOf(LastOf(themes, "THEME_SUGGESTION:", "corporate_modern")).value
             /\ result[k].slide_type = LastOf(types, "SLIDE_TYPE:", "content_slide")
             /\ result[k].points = [i \in 1..Len(bullets) |-> BulletPoint(line(bullets[i]))]

\* a finished parse of a text that has a bullet and a TITLE: line before its
\* first marker: the one record has no title and no bullets
C20_Witness ==
  /\ ppc = "done"
  /\ Len(lines) >= 3
  /\ IsBulletLine(lines[1])
  /\ IsTitleLine(lines[2])
  /\ MarkerPositions = <<3>>
  /\ Len(result) = 1
  /\ result[1].title = ""
  /\ result[1].points = <<>>

(***************************************************************************)
(* _parse_analysis_result on texts of bullet lines                         *)
(***************************************************************************)
BulletLineCorpus ==
  { "SLIDE 1 - A:",
    "- p1",
    "**- p2**",
    "* p3",
    "@ p4",
    "- **",
    "plain text" }

BulletTexts == {Join(ls, "\n") : ls \in SeqsUpTo(BulletLineCorpus, MaxRecordLines)}

ParserBulletsInit ==
  /\ ParserAlone
  /\ analysis_result \in BulletTexts
  /\ enable_image_generation \in BOOLEAN
  /\ lines = <<>>
  /\ lineNo = 0
  /\ current_slide = None
  /\ slides_data = <<>>
  /\ convNo = 0
  /\ result = <<>>
  /\ ppc = "start"

SpecParserBullets == ParserBulletsInit /\ [][ParserNext]_vars

\* C21: while a record is open, a line that begins (emphasis markers apart)
\* with one of the glyphs "-", "*" or the bullet character and carries
\* non-empty text appends exactly one entry to the record's bullets, and such
\* a line with empty text appends nothing.
C21_BulletGlyphsAppend ==
  [][ LET line == Strip(lines[lineNo])
          bare == Strip(Replace(line, "**", ""))
          glyph == StartsWith(bare, "-") \/ StartsWith(bare, "*") \/ StartsWith(bare, "@")
          text == Strip(SubSeq(bare, 2, Len(bare)))
      IN  ( /\ ppc = "scan"
            /\ lineNo <= Len(lines)
            /\ lineNo' = lineNo + 1
            /\ current_slide # None
            /\ ~IsSlideMarker(line)
            /\ glyph )
          => /\ current_slide' # None
             /\ Len(current_slide'.points) =
                  Len(current_slide.points) + (IF glyph /\ text # "" THEN 1 ELSE 0)
    ]_vars

(***************************************************************************)
(* LayoutEngine: calls on the engine                                       *)
(***************************************************************************)
\* content_type arguments: the parser's kinds and the tags the selector names
ContentTypes == SlideType \cup {"features", "comparison", "content", "Metrics"}

ParserIdle ==
  /\ analysis_result = ""
  /\ enable_image_generation = FALSE
  /\ lines = <<>>
  /\ lineNo = 0
  /\ current_slide = None
  /\ slides_data = <<>>
  /\ convNo = 0
  /\ result = <<>>
  /\ ppc = "idle"

\* layout_engine = LayoutEngine()
LayoutInit ==
  /\ ParserIdle
  /\ layouts = InitializeLayouts
  /\ le_call = [op |-> "none"]
  /\ bm_call = [op |-> "none"]
  /\ ClientIdle
  /\ AssemblyIdle
  /\ EngineIdle

CallCalculateFontSize ==
  /\ le_call.op = "none"
  /\ \E lt \in DOMAIN layouts :
       \E k \in 1..Len(layouts[lt]) :
         \E text_len \in 0..MaxTextLen :
           le_call' = [op |-> "calculate_font_size", layout |-> lt,
                       region |-> layouts[lt][k], text_len |-> text_len,
                       ret |-> calculate_font_size(text_len, layouts[lt][k])]
  /\ UNCHANGED <<layouts, parserVars, coverVars, engineVars, assemblyVars, clientVars>>

CallCalculateOptimalLayout ==
  /\ le_call.op = "none"
  /\ \E content_type \in ContentTypes, has_image \in BOOLEAN, has_diagram \in BOOLEAN :
       le_call' = [op |-> "calculate_optimal_layout", content_type |-> content_type,
                   has_image |-> has_image, has_diagram |-> has_diagram,
                   ret |-> calculate_optimal_layout(content_type, has_image, has_diagram)]
  /\ UNCHANGED <<layouts, parserVars, coverVars, engineVars, assemblyVars, clientVars>>

\* texts handed to validate_text_length; LongText has 114 characters
LongText ==
  "Our platform scales to millions of users. It keeps the main services "
  \o "fast and the critical data safe, at low cost."

TextCorpus ==
  {"", "abcdef", "alpha beta gamma. delta epsilon", "abcdefghijklmnopqr stuvwxyz",
   LongText}

\* regions handed to validate_text_length: the catalog's, and regions with
\* the text budgets 1..MaxBudget
ProbeRegions ==
  UNION {{layouts[lt][k] : k \in 1..Len(layouts[lt])} : lt \in DOMAIN layouts} \cup
  {LayoutRegion("probe", MARGIN_LEFT, MARGIN_TOP, 10000, 10000, 0, "left", b,
                DefaultFontSizeRange) : b \in 1..MaxBudget}

CallValidateTextLength ==
  /\ le_call.op = "none"
  /\ \E text \in TextCorpus, region \in ProbeRegions :
       le_call' = [op |-> "validate_text_length", text |-> text, region |-> region,
                   ret |-> validate_text_length(text, region),
                   reapplied |-> FALSE, of_text |-> text]
  /\ UNCHANGED <<layouts, parserVars, coverVars, engineVars, assemblyVars, clientVars>>

\* validate_text_length called again, for the same region, on the text the
\* previous call returned; of_text is history: the text of the first call
CallValidateTextLengthAgain ==
  /\ le_call.op = "validate_text_length"
  /\ ~le_call.reapplied
  /\ le_call' = [op |-> "validate_text_length", text |-> le_call.ret[1],
                 region |-> le_call.region,
                 ret |-> validate_text_length(le_call.ret[1], le_call.region),
                 reapplied |-> TRUE, of_text |-> le_call.text]
  /\ UNCHANGED <<layouts, parserVars, coverVars, engineVars, assemblyVars, clientVars>>

BulletCorpus == {"Key win", "Main PRIMARY goal", "Fast", "Safe", LongText}

BulletLists == SeqsUpTo(BulletCorpus, MaxBullets)

CallOptimizeBulletPoints ==
  /\ le_call.op = "none"
  /\ \E points \in BulletLists, max_points \in 0..MaxPoints :
       LET call == optimize_bullet_points(points, max_points)
       IN  le_call' = [op |-> "optimize_bullet_points", points |-> points,
                       max_points |-> max_points, ret |-> call.ret,
                       picked |-> call.picked, points_after |-> call.points]
  /\ UNCHANGED <<layouts, parserVars, coverVars, engineVars, assemblyVars, clientVars>>

CallGetLayout ==
  /\ le_call.op = "none"
  /\ \E layout_type \in LayoutType :
       le_call' = [op |-> "get_layout", layout_type |-> layout_type,
                   raised |-> "none",
                   ret |-> get_layout(layouts, layout_type)]
  /\ UNCHANGED <<layouts, parserVars, coverVars, engineVars, assemblyVars, clientVars>>

\* the caller has consumed the return value; the engine is ready for the next call
LayoutReturn ==
  /\ le_call.op # "none"
  /\ le_call' = [op |-> "none"]
  /\ UNCHANGED <<layouts, parserVars, coverVars, engineVars, assemblyVars, clientVars>>

LayoutNext ==
  \/ CallCalculateFontSize
  \/ CallCalculateOptimalLayout
  \/ CallGetLayout
  \/ CallValidateTextLength
  \/ CallValidateTextLengthAgain
  \/ CallOptimizeBulletPoints
  \/ LayoutReturn

SpecLayout == LayoutInit /\ [][LayoutNext]_vars

(***************************************************************************)
(* Claims about the layout engine                                          *)
(***************************************************************************)
\* C7: for every region of every catalog template and a text of any length,
\* calculate_font_size returns a size within the region's font range.
C7_FontSizeWithinRange ==
  le_call.op = "calculate_font_size" =>
    /\ le_call.ret \in Int
    /\ le_call.region.font_size_range[1] <= le_call.ret
    /\ le_call.ret <= le_call.region.font_size_range[2]

\* a call for a text of 50 to 149 characters whose size lies strictly inside
\* the range, and one for the empty text
C7_Witness ==
  /\ le_call.op = "calculate_font_size"
  /\ le_call.text_len \in 50..149
  /\ le_call.region.font_size_range[1] < le_call.ret
  /\ le_call.ret < le_call.region.font_size_range[2]

\* C23: for every font range (min, max) of the catalog and a text of length
\* L, calculate_font_size returns max for L < 50, max - 0.3 x (max - min)
\* rounded down for 50 <= L < 150, max - 0.6 x (max - min) rounded down for
\* 150 <= L < 300 and min for L >= 300; no longer text gets a larger size.
C23_FontSizeBuckets ==
  le_call.op = "calculate_font_size" =>
    LET min_size == le_call.region.font_size_range[1]
        max_size == le_call.region.font_size_range[2]
        L == le_call.text_len
        \* floor(max - (tenths / 10) x (max - min))
        Below(tenths) == (10 * max_size - tenths * (max_size - min_size)) \div 10
    IN  /\ le_call.ret = (IF L < 50 THEN max_size
                          ELSE IF L < 150 THEN Below(3)
                          ELSE IF L < 300 THEN Below(6)
                          ELSE min_size)
        /\ \A longer \in L..MaxTextLen :
             calculate_font_size(longer, le_call.region) <= le_call.ret

\* a call for a text of 150 to 299 characters on a region whose four bucket
\* sizes are all different
C23_Witness ==
  /\ le_call.op = "calculate_font_size"
  /\ le_call.text_len \in 150..299
  /\ le_call.ret < calculate_font_size(149, le_call.region)
  /\ calculate_font_size(149, le_call.region) < calculate_font_size(49, le_call.region)
  /\ calculate_font_size(300, le_call.region) < le_call.ret

\* C10: layout selection follows the precedence title_slide, then diagram,
\* then image, and every result is a template of the catalog.
C10_SelectionPrecedence ==
  le_call.op = "calculate_optimal_layout" =>
    /\ (le_call.content_type = "title_slide" => le_call.ret = "title_slide")
    /\ ((le_call.content_type # "title_slide" /\ le_call.has_diagram)
          => le_call.ret = "diagram_focus")
    /\ ((le_call.content_type # "title_slide" /\ ~le_call.has_diagram /\ le_call.has_image)
          => le_call.ret = "image_text")
    /\ le_call.ret \in DOMAIN layouts

\* a selection for a record that is no title slide and has both an image and
\* a diagram: the diagram rule wins
C10_Witness ==
  /\ le_call.op = "calculate_optimal_layout"
  /\ le_call.content_type # "title_slide"
  /\ le_call.has_image /\ le_call.has_diagram
  /\ le_call.ret = "diagram_focus"

\* C12: every region of every catalog template has non-negative x, y, width
\* and height and lies inside the 13.33 x 7.5 canvas.
C12_RegionsInsideCanvas ==
  \A lt \in DOMAIN layouts :
    \A k \in 1..Len(layouts[lt]) :
      LET region == layouts[lt][k]
      IN  /\ region.x >= 0 /\ region.y >= 0
          /\ region.width >= 0 /\ region.height >= 0
          /\ region.x + region.width <= SLIDE_WIDTH
          /\ region.y + region.height <= SLIDE_HEIGHT

\* get_layout has handed out a template with a region that reaches the right
\* and the bottom margin of the canvas exactly
C12_Witness ==
  /\ le_call.op = "get_layout"
  /\ le_call.layout_type \in DOMAIN layouts
  /\ \E k \in 1..Len(le_call.ret) :
       /\ le_call.ret[k].x + le_call.ret[k].width = SLIDE_WIDTH - MARGIN_RIGHT
       /\ le_call.ret[k].y + le_call.ret[k].height = SLIDE_HEIGHT - MARGIN_BOTTOM

\* C13: within each catalog template two distinct regions with the same
\* z_index never have overlapping rectangles, so overlapping regions always
\* differ in z_index and no two text regions overlap at one z-order.
C13_NoOverlapAtSameZ ==
  \A lt \in DOMAIN layouts :
    \A i \in 1..Len(layouts[lt]), j \in 1..Len(layouts[lt]) :
      LET a == layouts[lt][i]
          b == layouts[lt][j]
      IN  (i # j /\ a.z_index = b.z_index) =>
            ~(/\ a.x < b.x + b.width /\ b.x < a.x + a.width
              /\ a.y < b.y + b.height /\ b.y < a.y + a.height)

\* get_layout has handed out a template with two text regions of the same
\* z_index that lie side by side in the same rows
C13_Witness ==
  /\ le_call.op = "get_layout"
  /\ \E i \in 1..Len(le_call.ret), j \in 1..Len(le_call.ret) :
       /\ i # j
       /\ le_call.ret[i].z_index = le_call.ret[j].z_index
       /\ le_call.ret[i].max_text_length # NoMaxLength
       /\ le_call.ret[j].max_text_length # NoMaxLength
       /\ le_call.ret[i].y = le_call.ret[j].y
       /\ le_call.ret[i].x + le_call.ret[i].width < le_call.ret[j].x

\* C14: a request for a layout type without template (content_only,
\* full_image) is signalled as UnknownLayoutName and is not answered with
\* the regions of another template.
C14_UnknownLayoutSignalled ==
  (le_call.op = "get_layout" /\ le_call.layout_type \notin DOMAIN layouts) =>
    /\ le_call.raised = "UnknownLayoutName"
    /\ \A lt \in DOMAIN layouts : le_call.ret # layouts[lt]

\* C15: no call on the layout engine changes the catalog (its templates and
\* every field of every region), and optimize_bullet_points leaves the list
\* passed to it as it was.
C15_CatalogReadOnly ==
  [][ /\ layouts' = layouts
      /\ (le_call'.op = "optimize_bullet_points" =>
            le_call'.points_after = le_call'.points) ]_vars

\* a call of optimize_bullet_points that dropped bullets and returned the
\* rest in another order than they were passed, over the constructed catalog
C15_Witness ==
  /\ le_call.op = "optimize_bullet_points"
  /\ Len(le_call.points) > le_call.max_points
  /\ \E k \in 1..Len(le_call.ret) : le_call.ret[k] # le_call.points[k]
  /\ layouts = InitializeLayouts

\* C17: for a list of more than max_points bullets optimize_bullet_points
\* returns exactly max_points of them, those of highest score with the
\* earlier bullet preferred among equal scores, and equally scored returned
\* bullets stand in their original order; a list of at most max_points
\* bullets is returned unchanged.
C17_BulletPrioritisation ==
  le_call.op = "optimize_bullet_points" =>
    LET points == le_call.points
        picked == le_call.picked
        ret == le_call.ret
        score == ScoresOf(points)
        chosen == {picked[k] : k \in 1..Len(picked)}
    IN  IF Len(points) <= le_call.max_points THEN ret = points
        ELSE
          /\ Len(ret) = le_call.max_points
          /\ Len(picked) = Len(ret)
          /\ Cardinality(chosen) = Len(ret)
          /\ chosen \subseteq 1..Len(points)
          /\ \A k \in 1..Len(ret) : ret[k] = points[picked[k]]
          /\ \A i \in chosen, j \in (1..Len(points)) \ chosen :
               score[i] > score[j] \/ (score[i] = score[j] /\ i < j)
          /\ \A k \in 1..Len(ret), l \in 1..Len(ret) :
               (k < l /\ score[picked[k]] = score[picked[l]]) => picked[k] < picked[l]

\* a call that had to drop a bullet whose score equals that of a kept one, and
\* kept two bullets of equal score
C17_Witness ==
  /\ le_call.op = "optimize_bullet_points"
  /\ Len(le_call.points) > le_call.max_points
  /\ LET score == ScoresOf(le_call.points)
         chosen == {le_call.picked[k] : k \in 1..Len(le_call.picked)}
     IN  /\ \E i \in chosen, j \in (1..Len(le_call.points)) \ chosen : score[i] = score[j]
         /\ \E i \in chosen, j \in chosen : i # j /\ score[i] = score[j]

\* C18: a text longer than the region's text budget comes back with at most
\* budget + 3 characters and truncated = true, for every positive budget; a
\* text within the budget, or any text for a region without budget, comes
\* back unchanged with truncated = false.
C18_TruncationBound ==
  le_call.op = "validate_text_length" =>
    LET budget == le_call.region.max_text_length
    IN  IF budget # NoMaxLength /\ Len(le_call.text) > budget
        THEN Len(le_call.ret[1]) <= budget + 3 /\ le_call.ret[2] = TRUE
        ELSE le_call.ret = <<le_call.text, FALSE>>

\* C29: for a region whose text budget is at least 3, the text returned by
\* validate_text_length does not exceed the budget, and validating it again
\* returns it unchanged with truncated = false.
C29_TruncationIdempotent ==
  ( /\ le_call.op = "validate_text_length"
    /\ le_call.reapplied
    /\ le_call.region.max_text_length >= 3 ) =>
    /\ Len(le_call.text) <= le_call.region.max_text_length
    /\ le_call.ret = <<le_call.text, FALSE>>

\* a second call on a text that the first call had cut to exactly the budget
C29_Witness ==
  /\ le_call.op = "validate_text_length"
  /\ le_call.reapplied
  /\ le_call.region.max_text_length >= 3
  /\ Len(le_call.of_text) > le_call.region.max_text_length
  /\ le_call.text # le_call.of_text
  /\ Len(le_call.text) = le_call.region.max_text_length
  /\ le_call.ret[2] = FALSE

\* C22: for a text longer than the budget, with the kept part being what
\* hard truncation keeps of the text: if the last "." of the kept part lies
\* past 70% of the budget the result is the text up to and including that "."
\* without ellipsis; otherwise, if the last space of the kept part lies past
\* 80% of the budget, the result is the text before that space plus "...";
\* otherwise it is the kept part plus "..."; the result without its ellipsis
\* is always a prefix of the text.
C22_TruncationRuleOrder ==
  ( /\ le_call.op = "validate_text_length"
    /\ le_call.region.max_text_length # NoMaxLength
    /\ Len(le_call.text) > le_call.region.max_text_length ) =>
    LET text == le_call.text
        budget == le_call.region.max_text_length
        out == le_call.ret[1]
        kept == SliceTo(text, budget - 3)
        periods == Occurrences(kept, ".")
        spaces == Occurrences(kept, " ")
        atPeriod == periods # {} /\ 10 * (SetMax(periods) - 1) > 7 * budget
        atSpace == spaces # {} /\ 10 * (SetMax(spaces) - 1) > 8 * budget
        body == IF atPeriod THEN out ELSE SubSeq(out, 1, Len(out) - 3)
    IN  /\ le_call.ret[2] = TRUE
        /\ IF atPeriod THEN
             /\ out = SubSeq(text, 1, SetMax(periods))
             /\ SubSeq(out, Len(out), Len(out)) = "."
           ELSE IF atSpace THEN
             out = SubSeq(text, 1, SetMax(spaces) - 1) \o "..."
           ELSE
             out = kept \o "..."
        /\ Len(body) <= Len(text)
        /\ body = SubSeq(text, 1, Len(body))

\* a call in which both a "." past 70% and a space past 80% of the budget lie
\* in the kept part, and the result ends at the "."
C22_Witness ==
  /\ le_call.op = "validate_text_length"
  /\ le_call.region.max_text_length # NoMaxLength
  /\ Len(le_call.text) > le_call.region.max_text_length
  /\ LET budget == le_call.region.max_text_length
         kept == SliceTo(le_call.text, budget - 3)
     IN  /\ \E i \in Occurrences(kept, ".") : 10 * (i - 1) > 7 * budget
         /\ \E i \in Occurrences(kept, " ") : 10 * (i - 1) > 8 * budget
         /\ StartsWith(le_call.text, le_call.ret[1])
         /\ le_call.ret[2] = TRUE

(***************************************************************************)
(* visual/layout_system.py: BackgroundManager.prepare_background_image     *)
(***************************************************************************)
SLIDE_WIDTH_PX == 1920
SLIDE_HEIGHT_PX == 1080

\* int(x) of a quotient n / d, d > 0: truncation toward zero
Trunc(n, d) == IF n >= 0 THEN n \div d ELSE -((-n) \div d)

\* Triples <<w, h, a>> with 1 <= w, h <= 16 and a in -2..16 or a = 1080 or
\* a = 1920 for which the
\* IEEE-754 double expression a / (w / h) lies just below the integer a*h/w,
\* so that int(a / (w / h)) is one less than the exact quotient
\* (9 / (9 / 7) = 6.999999999999999).
DivisionShortfall == {<<9, 7, 9>>, <<9, 14, 9>>}

\* the same for the double expression a * (w / h) and the integer a*w/h
ProductShortfall == {<<15, 11, 11>>, <<15, 13, 13>>}

\* int(a / img_ratio) with img_ratio = w / h
IntOfQuotient(a, w, h) ==
  Trunc(a * h, w) - (IF <<w, h, a>> \in DivisionShortfall THEN 1 ELSE 0)

\* int(a * img_ratio) with img_ratio = w / h
IntOfProduct(a, w, h) ==
  Trunc(a * w, h) - (IF <<w, h, a>> \in ProductShortfall THEN 1 ELSE 0)

\* img_ratio > slide_ratio for w / h and sw / sh, h > 0 and sh # 0
RatioGreater(w, h, sw, sh) ==
  IF sh > 0 THEN w * sh > sw * h ELSE w * sh < sw * h

\* Path(image_path).stem: the file name without directories and last suffix
Stem(image_path) ==
  LET slashes == Occurrences(image_path, "/")
      name == IF slashes = {} THEN image_path
              ELSE SubSeq(image_path, SetMax(slashes) + 1, Len(image_path))
      dots == Occurrences(name, ".") \ {1}
  IN  IF dots = {} THEN name ELSE SubSeq(name, 1, SetMax(dots) - 1)

\* The body of the try block for an opened image of size w x h (w, h >= 1).
\* error names the exception that ends the block, "none" when it runs to its
\* end; scaled is the size after the first resize and box the crop box
\* (left, upper, right, lower), both where the block got that far.
\* PIL: resize raises ValueError for a size that is not positive, crop raises
\* ValueError for right < left or lower < upper and pads a box that leaves
\* the image.
CoverFit(w, h, slide_width, slide_height) ==
  IF slide_height = 0 THEN
    [error |-> "ZeroDivisionError", scaled |-> <<>>, box |-> <<>>]
  ELSE IF RatioGreater(w, h, slide_width, slide_height) THEN
    LET new_height == slide_height
        new_width == IntOfProduct(new_height, w, h)
        left == (new_width - slide_width) \div 2
    IN  IF new_width <= 0 \/ new_height <= 0 THEN
          [error |-> "ValueError", scaled |-> <<>>, box |-> <<>>]
        ELSE IF slide_width < 0 \/ slide_height < 0 THEN
          [error |-> "ValueError", scaled |-> <<new_width, new_height>>, box |-> <<>>]
        ELSE IF slide_width = 0 THEN
          [error |-> "ValueError", scaled |-> <<new_width, new_height>>,
           box |-> <<left, 0, left + slide_width, slide_height>>]
        ELSE
          [error |-> "none", scaled |-> <<new_width, new_height>>,
           box |-> <<left, 0, left + slide_width, slide_height>>]
  ELSE
    LET new_width == slide_width
        new_height == IF slide_width = 0 THEN 0 ELSE IntOfQuotient(new_width, w, h)
        top == (new_height - slide_height) \div 2
    IN  IF new_width <= 0 \/ new_height <= 0 THEN
          [error |-> "ValueError", scaled |-> <<>>, box |-> <<>>]
        ELSE IF slide_height < 0 THEN
          [error |-> "ValueError", scaled |-> <<new_width, new_height>>, box |-> <<>>]
        ELSE
          [error |-> "none", scaled |-> <<new_width, new_height>>,
           box |-> <<0, top, slide_width, top + slide_height>>]

\* sizes of the image files on disk (PIL opens no image without pixels)
ImageSizes == (1..MaxDim) \X (1..MaxDim)

\* slide_width and slide_height arguments, the defaults among them
TargetSizes ==
  ((-1..MaxDim) \X (-1..MaxDim)) \cup {<<SLIDE_WIDTH_PX, SLIDE_HEIGHT_PX>>}

CoverInit ==
  /\ ParserIdle
  /\ layouts = InitializeLayouts
  /\ le_call = [op |-> "none"]
  /\ bm_call = [op |-> "none"]
  /\ ClientIdle
  /\ AssemblyIdle
  /\ EngineIdle

\* prepare_background_image(image_path, slide_width, slide_height) on a file
\* holding an image of the given size. opens and saves say whether
\* Image.open and img.save succeed; every exception inside the try block is
\* caught and the call returns image_path.
PrepareBackgroundImage ==
  /\ bm_call.op = "none"
  /\ \E size \in ImageSizes, target \in TargetSizes, opens \in BOOLEAN, saves \in BOOLEAN :
       LET image_path == "shots/photo.v2.png"
           fit == CoverFit(size[1], size[2], target[1], target[2])
           error == IF ~opens THEN "OSError"
                    ELSE IF fit.error # "none" THEN fit.error
                    ELSE IF ~saves THEN "OSError"
                    ELSE "none"
       IN  bm_call' =
             [op |-> "prepare_background_image",
              image_path |-> image_path,
              image_size |-> size,
              slide_width |-> target[1],
              slide_height |-> target[2],
              opened |-> opens,
              caught |-> error,
              raised |-> "none",
              scaled |-> IF opens THEN fit.scaled ELSE <<>>,
              box |-> IF opens THEN fit.box ELSE <<>>,
              \* img.resize((slide_width, slide_height)) before the save
              size |-> IF error = "none" THEN <<target[1], target[2]>> ELSE <<>>,
              ret |-> IF error = "none"
                      THEN "bg_" \o Stem(image_path) \o "_processed.png"
                      ELSE image_path]
  /\ UNCHANGED <<parserVars, layoutVars, engineVars, assemblyVars, clientVars>>

CoverReturn ==
  /\ bm_call.op # "none"
  /\ bm_call' = [op |-> "none"]
  /\ UNCHANGED <<parserVars, layoutVars, engineVars, assemblyVars, clientVars>>

CoverNext == PrepareBackgroundImage \/ CoverReturn

SpecCover == CoverInit /\ [][CoverNext]_vars

(***************************************************************************)
(* Claims about the cover fit                                              *)
(***************************************************************************)
\* C8: for positive source and destination sizes the crop box lies within
\* the scaled image it is cut from: left, top >= 0 and right, bottom do not
\* exceed the scaled width and height.
C8_CropWithinImage ==
  (/\ bm_call.op = "prepare_background_image"
   /\ bm_call.opened
   /\ bm_call.slide_width > 0 /\ bm_call.slide_height > 0)
  =>
  (/\ Len(bm_call.box) = 4
   /\ bm_call.box[1] >= 0
   /\ bm_call.box[2] >= 0
   /\ bm_call.box[3] <= bm_call.scaled[1]
   /\ bm_call.box[4] <= bm_call.scaled[2])

\* C9: a zero or negative width or height is rejected by signalling
\* InvalidDimensions to the caller, not answered with a normal return.
C9_InvalidDimensionsSignalled ==
  (/\ bm_call.op = "prepare_background_image"
   /\ bm_call.opened
   /\ (bm_call.slide_width <= 0 \/ bm_call.slide_height <= 0))
  => bm_call.raised = "InvalidDimensions"

\* C24: for positive sizes, a source relatively taller than the destination
\* keeps its full width and loses part of its height (the crop is strictly
\* lower than the scaled image it is cut from), a source relatively wider
\* keeps its full height and loses part of its width, and the saved image has
\* exactly the destination's width and height.
C24_CoverFitAxis ==
  (/\ bm_call.op = "prepare_background_image"
   /\ bm_call.opened
   /\ bm_call.slide_width > 0 /\ bm_call.slide_height > 0)
  =>
  LET w == bm_call.image_size[1]
      h == bm_call.image_size[2]
      sw == bm_call.slide_width
      sh == bm_call.slide_height
      scaled == bm_call.scaled
      box == bm_call.box
  IN  /\ Len(scaled) = 2 /\ Len(box) = 4
      /\ (w * sh < sw * h) =>
            /\ box[1] = 0 /\ box[3] = scaled[1]
            /\ box[4] - box[2] < scaled[2]
      /\ (w * sh > sw * h) =>
            /\ box[2] = 0 /\ box[4] = scaled[2]
            /\ box[3] - box[1] < scaled[1]
      /\ (bm_call.caught = "none" => bm_call.size = <<sw, sh>>)

(***************************************************************************)
(* presentation/base_engine.py, pptx_engine.py, com_engine.py:             *)
(* create_full_presentation                                                *)
(***************************************************************************)
\* a theme argument that is no DesignTheme and cannot be hashed (a list)
UnhashableTheme == "[]"

\* SlideData.__init__ with the fields the engines read
SlideData(title, points, theme, slide_type, background_image, diagram_image) ==
  [title |-> title, points |-> points, theme |-> theme, slide_type |-> slide_type,
   background_image |-> background_image, diagram_image |-> diagram_image]

RecordCorpus ==
  { SlideData("Deck", <<"sub">>, "corporate_modern", "title_slide", None, None),
    SlideData("Empty", <<>>, "corporate_modern", "content_slide", None, None),
    SlideData("Two", <<"p1", "p2">>, "tech_innovation", "content_slide", None, None),
    SlideData("Cols", <<"p1", "p2", "p3">>, "corporate_modern", "features", None, None),
    SlideData("One", <<"p1">>, "corporate_modern", "comparison", None, None),
    SlideData("Feat", <<"p1", "p2", "p3", "p4">>, "corporate_modern", "features_slide",
              None, None),
    SlideData("Arch", <<"p1">>, "corporate_modern", "architecture_slide",
              None, PathOf("diagram.png")),
    SlideData("Photo", <<"p1">>, "creative_gradient", "content_slide",
              PathOf("bg.png"), None),
    SlideData("Bad", <<"p1">>, UnhashableTheme, "content_slide", None, None),
    SlideData("BadDeck", <<>>, UnhashableTheme, "title_slide", None, None) }

RecordLists == SeqsUpTo(RecordCorpus, MaxSlides)

Engines == {"pptx", "com"}

\* the slide size set by create_presentation, in 1/10000 inch:
\* Inches(10) x Inches(5.625) for python-pptx, 960 x 540 points over COM
PresentationSlideWidth(e) == IF e = "pptx" THEN 100000 ELSE (960 * 10000) \div 72
PresentationSlideHeight(e) == IF e = "pptx" THEN 56250 ELSE (540 * 10000) \div 72

\* DesignPalettes.get_palette: palette_map.get(theme, cls.CORPORATE_MODERN)
\* names the palette, and raises TypeError for a key that cannot be hashed
get_palette(theme) ==
  IF theme = UnhashableTheme THEN [raised |-> "TypeError"]
  ELSE IF theme \in DesignTheme THEN [palette |-> theme]
  ELSE [palette |-> "corporate_modern"]

\* PPTXPresentationEngine._populate_slide_content: the names of the regions
\* that get a text box, in the order of layout_regions
PopulateSlideContent(slide_data, layout_regions) ==
  LET points == slide_data.points
      mid_point == Len(points) \div 2
      Placed(region) ==
        IF region.name = "title" THEN TRUE
        ELSE IF region.name = "content" THEN points # <<>>
        ELSE IF region.name = "left_content" THEN
          points # <<>> /\ SubSeq(points, 1, mid_point) # <<>>
        ELSE IF region.name = "right_content" THEN
          points # <<>> /\ SubSeq(points, mid_point + 1, Len(points)) # <<>>
        ELSE IF region.name = "text_content" THEN points # <<>>
        ELSE FALSE
      placed == SelectSeq(layout_regions, Placed)
  IN  [k \in 1..Len(placed) |-> placed[k].name]

\* _populate_slide_content with the first half rounded up
RegionContent_LeftRoundedUp(slide_data, region) ==
  LET points == slide_data.points
      mid_point == (Len(points) + 1) \div 2
  IN  IF region.name = "title" THEN <<slide_data.title>>
      ELSE IF region.name = "content" THEN optimize_bullet_points(points, 4).ret
      ELSE IF region.name = "left_content" THEN SubSeq(points, 1, mid_point)
      ELSE IF region.name = "right_content" THEN SubSeq(points, mid_point + 1, Len(points))
      ELSE IF region.name = "text_content" THEN optimize_bullet_points(points, 3).ret
      ELSE <<>>

\* PPTXPresentationEngine._populate_slide_content: the title handed to
\* _add_title_region or the list handed to _add_content_region for a region
RegionContent(slide_data, region) ==
  LET points == slide_data.points
      mid_point == Len(points) \div 2
  IN  IF region.name = "title" THEN <<slide_data.title>>
      ELSE IF region.name = "content" THEN optimize_bullet_points(points, 4).ret
      ELSE IF region.name = "left_content" THEN SubSeq(points, 1, mid_point)
      ELSE IF region.name = "right_content" THEN SubSeq(points, mid_point + 1, Len(points))
      ELSE IF region.name = "text_content" THEN optimize_bullet_points(points, 3).ret
      ELSE <<>>

\* the content of each text box of PopulateSlideContent, in the same order
HandedContent(slide_data, layout_regions) ==
  LET placed == PopulateSlideContent(slide_data, layout_regions)
      RegionOf(name) == CHOOSE region \in {layout_regions[j] : j \in 1..Len(layout_regions)} :
                          region.name = name
  IN  [k \in 1..Len(placed) |-> RegionContent(slide_data, RegionOf(placed[k]))]

\* _add_title_region and _add_content_region: the text box
\* (left, top, width, height) of each text box of PopulateSlideContent
PlacedBoxes(slide_data, layout_regions) ==
  LET placed == PopulateSlideContent(slide_data, layout_regions)
      RegionOf(name) == CHOOSE region \in {layout_regions[j] : j \in 1..Len(layout_regions)} :
                          region.name = name
  IN  [k \in 1..Len(placed) |->
         <<RegionOf(placed[k]).x, RegionOf(placed[k]).y,
           RegionOf(placed[k]).width, RegionOf(placed[k]).height>>]

\* PPTXPresentationEngine._setup_slide_background and _add_visual_elements:
\* the pictures put on the slide
SlidePictures(slide_data) ==
  (IF PyTruthy(slide_data.background_image) THEN <<"background">> ELSE <<>>)
  \o (IF PyTruthy(slide_data.diagram_image) THEN <<"diagram">> ELSE <<>>)

\* a slide of the document; src is history: the position of the record the
\* slide was built from; complete says the add call ran to its end
Slide(src, via, layout, elements, content, boxes, pictures, complete) ==
  [src |-> src, via |-> via, layout |-> layout, elements |-> elements,
   content |-> content, boxes |-> boxes, pictures |-> pictures, complete |-> complete]

\* PPTXPresentationEngine.add_slide
PptxAddSlide(slide_data, src) ==
  LET layout_type == calculate_optimal_layout(
                       slide_data.slide_type,
                       PyTruthy(slide_data.background_image)
                         \/ PyTruthy(slide_data.diagram_image),
                       PyTruthy(slide_data.diagram_image))
      layout_regions == get_layout(layouts, layout_type)
      palette == get_palette(slide_data.theme)
  IN  IF "raised" \in DOMAIN palette THEN
        [slide |-> Slide(src, "add_slide", layout_type, <<>>, <<>>, <<>>, <<>>, FALSE),
         raised |-> TRUE]
      ELSE
        [slide |-> Slide(src, "add_slide", layout_type,
                         PopulateSlideContent(slide_data, layout_regions),
                         HandedContent(slide_data, layout_regions),
                         PlacedBoxes(slide_data, layout_regions),
                         SlidePictures(slide_data), TRUE),
         raised |-> FALSE]

\* PPTXPresentationEngine.add_title_slide and COMPresentationEngine.add_title_slide
AddTitleSlideOf(title, subtitle, theme, src, layout) ==
  LET palette == get_palette(theme)
  IN  IF "raised" \in DOMAIN palette THEN
        [slide |-> Slide(src, "add_title_slide", layout, <<>>, <<>>, <<>>, <<>>, FALSE),
         raised |-> TRUE]
      ELSE
        [slide |-> Slide(src, "add_title_slide", layout,
                         <<"title">> \o (IF subtitle # "" THEN <<"subtitle">> ELSE <<>>),
                         <<<<title>>>> \o (IF subtitle # "" THEN <<<<subtitle>>>> ELSE <<>>),
                         <<>>, <<>>, TRUE),
         raised |-> FALSE]

\* COMPresentationEngine.add_slide
ComAddSlide(slide_data, src) ==
  LET palette == get_palette(slide_data.theme)
  IN  IF "raised" \in DOMAIN palette THEN
        [slide |-> Slide(src, "add_slide", "ppLayoutText", <<>>, <<>>, <<>>, <<>>, FALSE),
         raised |-> TRUE]
      ELSE
        [slide |-> Slide(src, "add_slide", "ppLayoutText", <<"title", "content">>,
                         <<<<slide_data.title>>, slide_data.points>>,
                         <<>>,
                         SlidePictures(slide_data), TRUE),
         raised |-> FALSE]

EngineInit ==
  /\ ParserIdle
  /\ layouts = InitializeLayouts
  /\ le_call = [op |-> "none"]
  /\ bm_call = [op |-> "none"]
  /\ ClientIdle
  /\ AssemblyIdle
  /\ engine \in Engines
  /\ records \in RecordLists
  /\ epc = "create"
  /\ recNo = 0
  /\ presentation = None
  /\ slides_created = 0
  /\ saved_file = None
  /\ failed_record = 0
  /\ outcome = None

nonEngineVars == <<parserVars, layoutVars, coverVars, assemblyVars, clientVars>>

\* self.create_presentation(presentation_title); available says whether the
\* library (python-pptx, PowerPoint over COM) can be started
CreatePresentation ==
  /\ epc = "create"
  /\ \E available \in BOOLEAN :
       IF available THEN
         /\ presentation' = [slides |-> <<>>,
                              slide_width |-> PresentationSlideWidth(engine),
                              slide_height |-> PresentationSlideHeight(engine)]
         /\ recNo' = 1
         /\ epc' = "loop"
       ELSE
         /\ epc' = "except"
         /\ UNCHANGED <<presentation, recNo>>
  /\ slides_created' = 0
  /\ UNCHANGED <<engine, records, saved_file, failed_record, outcome>>
  /\ UNCHANGED nonEngineVars

\* the loop body for a record of slide_type "title_slide"
AddTitleSlide ==
  /\ epc = "loop"
  /\ recNo <= Len(records)
  /\ records[recNo].slide_type = "title_slide"
  /\ LET slide_data == records[recNo]
         subtitle == IF slide_data.points # <<>> THEN slide_data.points[1] ELSE ""
         call == AddTitleSlideOf(slide_data.title, subtitle, slide_data.theme, recNo,
                                 IF engine = "pptx" THEN "slide_layouts[0]"
                                 ELSE "ppLayoutTitle")
     IN  /\ presentation' =
               [presentation EXCEPT !.slides =
                  IF engine = "pptx"
                  THEN Append(presentation.slides, call.slide)
                  ELSE <<call.slide>> \o presentation.slides]
         /\ IF call.raised THEN
              /\ failed_record' = recNo
              /\ epc' = "except"
              /\ UNCHANGED <<slides_created, recNo>>
            ELSE
              /\ slides_created' = slides_created + 1
              /\ recNo' = recNo + 1
              /\ UNCHANGED <<failed_record, epc>>
  /\ UNCHANGED <<engine, records, saved_file, outcome>>
  /\ UNCHANGED nonEngineVars

\* the loop body for every other record
AddSlide ==
  /\ epc = "loop"
  /\ recNo <= Len(records)
  /\ records[recNo].slide_type # "title_slide"
  /\ LET slide_data == records[recNo]
         call == IF engine = "pptx" THEN PptxAddSlide(slide_data, recNo)
                 ELSE ComAddSlide(slide_data, recNo)
     IN  /\ presentation' = [presentation EXCEPT !.slides = Append(@, call.slide)]
         /\ IF call.raised THEN
              /\ failed_record' = recNo
              /\ epc' = "except"
              /\ UNCHANGED <<slides_created, recNo>>
            ELSE
              /\ slides_created' = slides_created + 1
              /\ recNo' = recNo + 1
              /\ UNCHANGED <<failed_record, epc>>
  /\ UNCHANGED <<engine, records, saved_file, outcome>>
  /\ UNCHANGED nonEngineVars

\* success = self.save_presentation(output_path); the library writes the
\* file, or returns without the file existing (filepath.exists() is False),
\* or raises
SavePresentation ==
  /\ epc = "loop"
  /\ recNo = Len(records) + 1
  /\ \E save \in {"written", "missing", "raised"} :
       IF save = "written" THEN
         /\ saved_file' = [slides |-> presentation.slides]
         /\ epc' = "close"
       ELSE IF save = "missing" THEN
         /\ epc' = "close"
         /\ UNCHANGED saved_file
       ELSE
         /\ epc' = "except"
         /\ UNCHANGED saved_file
  /\ UNCHANGED <<engine, records, recNo, presentation, slides_created,
                 failed_record, outcome>>
  /\ UNCHANGED nonEngineVars

\* close_presentation. PPTX: self.presentation = None. COM: inside
\* try/except Exception: pass, self.presentation.Close() and then
\* self.presentation = None, so the field keeps its value when Close() raises
close_presentation(e, pres, closes) ==
  IF e = "pptx" THEN None
  ELSE IF pres = None THEN None
  ELSE IF closes THEN None
  ELSE pres

\* self.close_presentation(); return success
ClosePresentation ==
  /\ epc = "close"
  /\ \E closes \in BOOLEAN : presentation' = close_presentation(engine, presentation, closes)
  /\ outcome' = [returned |-> saved_file # None]
  /\ epc' = "returned"
  /\ UNCHANGED <<engine, records, recNo, slides_created, saved_file, failed_record>>
  /\ UNCHANGED nonEngineVars

\* except Exception: self.close_presentation(); raise PresentationError
ExceptClose ==
  /\ epc = "except"
  /\ \E closes \in BOOLEAN : presentation' = close_presentation(engine, presentation, closes)
  /\ outcome' = [raised |-> "PresentationError"]
  /\ epc' = "raised"
  /\ UNCHANGED <<engine, records, recNo, slides_created, saved_file, failed_record>>
  /\ UNCHANGED nonEngineVars

EngineNext ==
  \/ CreatePresentation
  \/ AddTitleSlide
  \/ AddSlide
  \/ SavePresentation
  \/ ClosePresentation
  \/ ExceptClose

SpecEngine == EngineInit /\ [][EngineNext]_vars

(***************************************************************************)
(* Claims about the engines                                                *)
(***************************************************************************)
\* C4: every slide added through the layout system holds one placed element
\* per region of its layout template, in declaration order, whatever content
\* the record supplies.
C4_EveryRegionFilled ==
  (engine = "pptx" /\ presentation # None) =>
    \A k \in 1..Len(presentation.slides) :
      LET slide == presentation.slides[k]
          regions == layouts[slide.layout]
      IN  (slide.via = "add_slide" /\ slide.complete) =>
            slide.elements = [j \in 1..Len(regions) |-> regions[j].name]

\* C5: when create_full_presentation has returned true, the document holds
\* one slide per record and its k-th slide was built from the k-th record, on
\* either engine.
C5_OrderAndCountPreserved ==
  (epc = "returned" /\ outcome = [returned |-> TRUE]) =>
    /\ saved_file # None
    /\ Len(saved_file.slides) = Len(records)
    /\ \A k \in 1..Len(saved_file.slides) : saved_file.slides[k].src = k

\* C6: when the add call of one record has raised, the run still ends by
\* returning, the document is saved, and it holds the slides of all other
\* records.
C6_FailureIsolated ==
  (epc \in {"returned", "raised"} /\ failed_record > 0) =>
    /\ epc = "returned"
    /\ saved_file # None
    /\ \A k \in (1..Len(records)) \ {failed_record} :
         \E j \in 1..Len(saved_file.slides) : saved_file.slides[j].src = k

\* C11: a slide built from a record without image and diagram has layout
\* two_column exactly when the record's kind is the parser's features or
\* metrics kind and it has at least 4 bullets, and title_content otherwise.
C11_TwoColumnRule ==
  (engine = "pptx" /\ presentation # None) =>
    \A k \in 1..Len(presentation.slides) :
      LET slide == presentation.slides[k]
          slide_data == records[slide.src]
      IN  (/\ slide.via = "add_slide"
           /\ ~PyTruthy(slide_data.background_image)
           /\ ~PyTruthy(slide_data.diagram_image))
          =>
          slide.layout =
            IF slide_data.slide_type \in {"features_slide", "metrics_slide"}
               /\ Len(slide_data.points) >= 4
            THEN "two_column" ELSE "title_content"

\* C26: every text box the PPTX engine places for a region lies within the
\* slide size the engine set in create_presentation: left + width does not
\* exceed the slide width and top + height does not exceed the slide height.
C26_BoxesInsideSlide ==
  (engine = "pptx" /\ presentation # None) =>
    \A k \in 1..Len(presentation.slides) :
      \A b \in 1..Len(presentation.slides[k].boxes) :
        LET box == presentation.slides[k].boxes[b]
        IN  /\ box[1] + box[3] <= presentation.slide_width
            /\ box[2] + box[4] <= presentation.slide_height

\* C27: create_full_presentation ends with the engine closed: once it has
\* returned true or false, or raised, the engine holds no presentation, on
\* either engine.
C27_EndsClosed ==
  epc \in {"returned", "raised"} => presentation = None

\* C28: in the PPTX engine, after create_presentation and any add_slide and
\* add_title_slide calls, failed ones included, slides_created equals the
\* number of slides the presentation holds.
C28_CountMatchesSlides ==
  (engine = "pptx" /\ presentation # None) =>
    slides_created = Len(presentation.slides)

\* C25: on a slide laid out as two_column from a record with n bullets,
\* left_content receives the first floor(n/2) bullets and right_content the
\* remaining ones, so that left followed by right is the record's bullet list
\* in its original order.
C25_TwoColumnSplit ==
  (engine = "pptx" /\ presentation # None) =>
    \A k \in 1..Len(presentation.slides) :
      LET slide == presentation.slides[k]
          points == records[slide.src].points
          n == Len(points)
          Received(name) ==
            IF \E e \in 1..Len(slide.elements) : slide.elements[e] = name
            THEN slide.content[CHOOSE e \in 1..Len(slide.elements) : slide.elements[e] = name]
            ELSE <<>>
      IN  (slide.via = "add_slide" /\ slide.complete /\ slide.layout = "two_column") =>
            /\ Received("left_content") = SubSeq(points, 1, n \div 2)
            /\ Received("right_content") = SubSeq(points, (n \div 2) + 1, n)
            /\ Received("left_content") \o Received("right_content") = points

\* a two_column slide built from a record with an odd number of bullets, at
\* least three, with text boxes for both columns
C25_Witness ==
  /\ engine = "pptx"
  /\ presentation # None
  /\ \E k \in 1..Len(presentation.slides) :
       LET slide == presentation.slides[k]
           n == Len(records[slide.src].points)
       IN  /\ slide.layout = "two_column"
           /\ slide.complete
           /\ n >= 3 /\ n % 2 = 1
           /\ slide.elements = <<"title", "left_content", "right_content">>
           /\ Len(slide.content[2]) < Len(slide.content[3])

(***************************************************************************)
(* presentation/pptx_engine.py: _insert_proper_background_image on two     *)
(* engines that run concurrently and share background_manager              *)
(***************************************************************************)
Docs == {1, 2}

\* source images of the documents
ImagePaths == {"a/photo.png", "b/photo.png", "b/chart.png"}

\* self.temp_dir / f"bg_{Path(image_path).stem}_processed.png", by file name
OutputPath(image_path) == "bg_" \o Stem(image_path) \o "_processed.png"

\* temp_dir after a file of the given name and content is written
WriteFile(files, name, content) ==
  [f \in DOMAIN files \cup {name} |-> IF f = name THEN content ELSE files[f]]

AssemblyInit ==
  /\ ParserIdle
  /\ EngineIdle
  /\ layouts = InitializeLayouts
  /\ le_call = [op |-> "none"]
  /\ bm_call = [op |-> "none"]
  /\ ClientIdle
  /\ docs \in [Docs -> {[image_path |-> image_path, pc |-> "prepare",
                         processed_image |-> "", picture |-> None] :
                          image_path \in ImagePaths}]
  /\ temp_files = <<>>

nonAssemblyVars == <<parserVars, layoutVars, coverVars, engineVars, clientVars>>

\* processed_image = background_manager.prepare_background_image(image_path):
\* when the try block runs to its end the processed image is saved under the
\* output path and that path is returned, otherwise image_path is returned
PrepareBackground(d) ==
  /\ docs[d].pc = "prepare"
  /\ \E processed \in BOOLEAN :
       IF processed THEN
         /\ temp_files' = WriteFile(temp_files, OutputPath(docs[d].image_path),
                                    [source |-> docs[d].image_path, processed |-> TRUE])
         /\ docs' = [docs EXCEPT ![d].pc = "add_picture",
                                 ![d].processed_image = OutputPath(docs[d].image_path)]
       ELSE
         /\ docs' = [docs EXCEPT ![d].pc = "add_picture",
                                 ![d].processed_image = docs[d].image_path]
         /\ UNCHANGED temp_files
  /\ UNCHANGED nonAssemblyVars

\* pic = slide.shapes.add_picture(processed_image, ...): reads the file that
\* processed_image names at this moment
AddPicture(d) ==
  /\ docs[d].pc = "add_picture"
  /\ docs' = [docs EXCEPT
                ![d].pc = "done",
                ![d].picture =
                  IF docs[d].processed_image \in DOMAIN temp_files
                  THEN temp_files[docs[d].processed_image]
                  ELSE [source |-> docs[d].processed_image, processed |-> FALSE]]
  /\ UNCHANGED temp_files
  /\ UNCHANGED nonAssemblyVars

AssemblyNext == \E d \in Docs : PrepareBackground(d) \/ AddPicture(d)

SpecAssembly == AssemblyInit /\ [][AssemblyNext]_vars

\* C16: under every interleaving of two assemblies each slide gets the
\* background made from its own document's source image, also when the two
\* source images are different files with the same stem.
C16_OwnBackground ==
  \A d \in DOMAIN docs :
    docs[d].pc = "done" => docs[d].picture.source = docs[d].image_path

(***************************************************************************)
(* GeminiClient.generate_content                                           *)
(***************************************************************************)
rate_limit_indicators ==
  {"503", "overloaded", "unavailable", "rate limit", "quota exceeded", "too many requests"}

\* _is_rate_limit_error(error_msg)
is_rate_limit_error(error_msg) ==
  \E indicator \in rate_limit_indicators : InLower(indicator, error_msg)

\* what one self.client.models.generate_content call can do: return a
\* response with this text, or raise an exception with this message
ApiResults ==
  {[text |-> "SLIDE 1 - A:"], [text |-> ""]} \cup
  {[error |-> m] : m \in {"503 Service Unavailable", "The model is overloaded",
                           "Quota exceeded for requests", "429 Too Many Requests",
                           "400 API key not valid", "Connection reset by peer"}}

\* str(e) of the exception the except clause sees after an API result that
\* did not return
ErrorMsg(api) ==
  IF "error" \in DOMAIN api THEN api.error ELSE "Empty response from Gemini"

\* the max_retries argument: None or an int
RetryArgs == {None} \cup {[int |-> n] : n \in 0..MaxRetries}

\* max_retries or self.max_retries
RetriesOf(max_retries, default) ==
  IF max_retries = None THEN default
  ELSE IF max_retries.int = 0 THEN default
  ELSE max_retries.int

\* the except clause deciding with every error retried while attempts remain
AfterError_RetriesAnyError(error_msg, attempt, retries) ==
  IF attempt < retries - 1 THEN "continue" ELSE "raise"

\* the except clause of the loop body: sleep and continue, or raise
AfterError(error_msg, attempt, retries) ==
  IF is_rate_limit_error(error_msg) THEN
    IF attempt < retries - 1 THEN "continue" ELSE "raise"
  ELSE "raise"

\* a client built from a configuration: with or without API key, and with
\* max_retries as FrameworkConfig validates it (non-negative)
ClientInit ==
  /\ ParserIdle
  /\ layouts = InitializeLayouts
  /\ le_call = [op |-> "none"]
  /\ bm_call = [op |-> "none"]
  /\ AssemblyIdle
  /\ EngineIdle
  /\ client \in {[configured |-> c, max_retries |-> m, request_count |-> 0,
                   error_count |-> 0] : c \in BOOLEAN, m \in 0..MaxRetries}
  /\ gc_call = [op |-> "none"]

nonClientVars == <<parserVars, layoutVars, coverVars, engineVars, assemblyVars>>

\* generate_content(prompt, max_retries) up to the for loop
CallGenerateContent ==
  /\ gc_call.op = "none"
  /\ client.request_count < MaxRequests
  /\ \E max_retries \in RetryArgs :
       IF ~client.configured THEN
         /\ gc_call' = [op |-> "generate_content", pc |-> "raised",
                        retries |-> 0, attempt |-> 0, api |-> <<>>,
                        outcome |-> [raised |-> "AIClientError"]]
         /\ UNCHANGED client
       ELSE
         /\ gc_call' = [op |-> "generate_content", pc |-> "loop",
                        retries |-> RetriesOf(max_retries, client.max_retries),
                        attempt |-> 0, api |-> <<>>, outcome |-> None]
         /\ client' = [client EXCEPT !.request_count = @ + 1]
  /\ UNCHANGED nonClientVars

\* one iteration of "for attempt in range(retries)": the API call, and the
\* except clause with its time.sleep(delay) when the call did not return
Attempt ==
  /\ gc_call.op = "generate_content"
  /\ gc_call.pc = "loop"
  /\ gc_call.attempt < gc_call.retries
  /\ \E api \in ApiResults :
       IF "text" \in DOMAIN api /\ api.text # "" THEN
         /\ gc_call' = [gc_call EXCEPT !.api = Append(@, api), !.pc = "returned",
                                       !.outcome = [returned |-> api.text]]
         /\ UNCHANGED client
       ELSE
         /\ client' = [client EXCEPT !.error_count = @ + 1]
         /\ IF AfterError(ErrorMsg(api), gc_call.attempt, gc_call.retries) = "continue"
            THEN gc_call' = [gc_call EXCEPT !.api = Append(@, api),
                                            !.attempt = @ + 1]
            ELSE gc_call' = [gc_call EXCEPT !.api = Append(@, api), !.pc = "raised",
                                            !.outcome = [raised |-> "AIClientError"]]
  /\ UNCHANGED nonClientVars

\* the for loop ends without return or raise: raise AIClientError
LoopExhausted ==
  /\ gc_call.op = "generate_content"
  /\ gc_call.pc = "loop"
  /\ gc_call.attempt >= gc_call.retries
  /\ gc_call' = [gc_call EXCEPT !.pc = "raised",
                                !.outcome = [raised |-> "AIClientError"]]
  /\ UNCHANGED client
  /\ UNCHANGED nonClientVars

\* the caller has the return value or the exception
ClientReturn ==
  /\ gc_call.op = "generate_content"
  /\ gc_call.pc \in {"returned", "raised"}
  /\ gc_call' = [op |-> "none"]
  /\ UNCHANGED client
  /\ UNCHANGED nonClientVars

ClientNext == CallGenerateContent \/ Attempt \/ LoopExhausted \/ ClientReturn

SpecClient == ClientInit /\ [][ClientNext]_vars

\* every API call returns or raises, and the loop goes on
SpecClientLive == SpecClient /\ WF_vars(Attempt) /\ WF_vars(LoopExhausted)

\* C30: one generate_content call makes at most retries API attempts; an
\* attempt is made only after attempts that all failed with an error
\* classified as rate limit or overload, so any other result -- an empty
\* response included -- is the last attempt of the call; a returned call
\* returns the non-empty text of its last attempt, and every call ends by
\* returning or by raising AIClientError.
C30_BoundedRetry ==
  /\ [](gc_call.op = "generate_content" =>
         LET api == gc_call.api
             RateLimited(r) == "error" \in DOMAIN r /\ is_rate_limit_error(r.error)
         IN  /\ Len(api) <= gc_call.retries
             /\ \A i \in 1..(Len(api) - 1) : RateLimited(api[i])
             /\ (gc_call.pc = "loop" => \A i \in 1..Len(api) : RateLimited(api[i]))
             /\ (gc_call.pc = "returned" =>
                   /\ api # <<>>
                   /\ "text" \in DOMAIN api[Len(api)]
                   /\ api[Len(api)].text # ""
                   /\ gc_call.outcome = [returned |-> api[Len(api)].text])
             /\ (gc_call.pc = "raised" => gc_call.outcome = [raised |-> "AIClientError"])
             /\ gc_call.pc \in {"loop", "returned", "raised"})
  /\ ((gc_call.op = "generate_content") ~>
        (gc_call.op = "generate_content" /\ gc_call.pc \in {"returned", "raised"}))

\* a call that was retried after a rate-limit error and then ended at once on
\* an empty response, with attempts to spare
C30_Witness ==
  /\ gc_call.op = "generate_content"
  /\ gc_call.pc = "raised"
  /\ Len(gc_call.api) = 2
  /\ gc_call.retries = 3
  /\ "error" \in DOMAIN gc_call.api[1]
  /\ gc_call.api[2] = [text |-> ""]

=============================================================================
